---- MODULE Spec2Model ----
(***************************************************************************)
(* Model of the component-selection page of PCPartPickerBD                 *)
(* (src/unnamed/part_000): the client-side ranking of fetched components   *)
(* (applyFilters / prioritizeExactMatches) and the grouped rendering of    *)
(* the ranked list (Exact / Similar / Other Related sections).             *)
(*                                                                         *)
(* Strings are sequences of one-character strings, so that toLowerCase,    *)
(* trim, startsWith and includes are computed character by character.      *)
(***************************************************************************)
EXTENDS Integers, Sequences, FiniteSets, TLC

\* ------------------------------------------------------------------ bounds
\* Longest name / query, in characters.
MaxLen == 2
\* Longest component list returned by the API.
MaxItems == 3

\* ---------------------------------------------------------------- alphabet
\* A lower-case letter, its upper-case form and the space character.
Chars == {"a", "A", " "}

Sources == {"Startech", "Techland"}

\* useState<string | null>(null): no source / availability filter selected.
NoFilter == "null"

Strings == UNION {[1..k -> Chars] : k \in 0..MaxLen}

\* ---------------------------------------------------------- string helpers
\* String.prototype.toLowerCase on one character.
LowerChar(c) == IF c = "A" THEN "a" ELSE c

\* String.prototype.toLowerCase
toLowerCase(s) == [i \in 1..Len(s) |-> LowerChar(s[i])]

IsWhitespace(c) == c = " "

RECURSIVE trimStart(_)
trimStart(s) ==
    IF s # <<>> /\ IsWhitespace(Head(s)) THEN trimStart(Tail(s)) ELSE s

RECURSIVE trimEnd(_)
trimEnd(s) ==
    IF s # <<>> /\ IsWhitespace(s[Len(s)])
    THEN trimEnd(SubSeq(s, 1, Len(s) - 1))
    ELSE s

\* String.prototype.trim
trim(s) == trimEnd(trimStart(s))

\* String.prototype.startsWith
startsWith(s, p) == Len(p) <= Len(s) /\ SubSeq(s, 1, Len(p)) = p

\* String.prototype.includes
includes(s, p) ==
    \E k \in 0..(Len(s) - Len(p)) : SubSeq(s, k + 1, k + Len(p)) = p

\* Array.prototype.includes on an array of objects (reference identity).
arrayIncludes(arr, c) == \E i \in 1..Len(arr) : arr[i] = c

\* -------------------------------------------------------------- the ranker
\* Variant: the query is lower-cased but not trimmed.
normalizedQuery_noTrim(query) == toLowerCase(query)

\* const normalizedQuery = query.toLowerCase().trim()
normalizedQuery(query) == trim(toLowerCase(query))

\* Variant: the name is trimmed as well as lower-cased.
normalizedName_trimmed(component) == trim(toLowerCase(component.name))

\* const normalizedName = component.name.toLowerCase()
normalizedName(component) == toLowerCase(component.name)

EmptyGroups ==
    [exactMatches |-> <<>>, startsWithMatches |-> <<>>,
     containsMatches |-> <<>>, otherMatches |-> <<>>,
     sourcesWithExactMatches |-> {}]

\* Body of the first forEach: exact matches and their sources.
firstPassStep(g, component, nq) ==
    IF normalizedName(component) = nq
    THEN [g EXCEPT !.exactMatches = Append(@, component),
                   !.sourcesWithExactMatches = @ \cup {component.source}]
    ELSE g

\* Variant: the contains test comes before the starts-with test.
secondPassStep_includesFirst(g, component, nq) ==
    IF arrayIncludes(g.exactMatches, component)
    THEN g
    ELSE IF normalizedName(component) = nq
            /\ component.source \notin g.sourcesWithExactMatches
    THEN [g EXCEPT !.exactMatches = Append(@, component),
                   !.sourcesWithExactMatches = @ \cup {component.source}]
    ELSE IF includes(normalizedName(component), nq)
    THEN [g EXCEPT !.containsMatches = Append(@, component)]
    ELSE IF startsWith(normalizedName(component), nq)
    THEN [g EXCEPT !.startsWithMatches = Append(@, component)]
    ELSE [g EXCEPT !.otherMatches = Append(@, component)]

\* Body of the second forEach: categorize the remaining components.
secondPassStep(g, component, nq) ==
    IF arrayIncludes(g.exactMatches, component)
    THEN g
    ELSE IF normalizedName(component) = nq
            /\ component.source \notin g.sourcesWithExactMatches
    THEN [g EXCEPT !.exactMatches = Append(@, component),
                   !.sourcesWithExactMatches = @ \cup {component.source}]
    ELSE IF startsWith(normalizedName(component), nq)
    THEN [g EXCEPT !.startsWithMatches = Append(@, component)]
    ELSE IF includes(normalizedName(component), nq)
    THEN [g EXCEPT !.containsMatches = Append(@, component)]
    ELSE [g EXCEPT !.otherMatches = Append(@, component)]

RECURSIVE firstPass(_, _, _, _)
firstPass(components_, nq, i, g) ==
    IF i > Len(components_) THEN g
    ELSE firstPass(components_, nq, i + 1, firstPassStep(g, components_[i], nq))

RECURSIVE secondPass(_, _, _, _)
secondPass(components_, nq, i, g) ==
    IF i > Len(components_) THEN g
    ELSE secondPass(components_, nq, i + 1, secondPassStep(g, components_[i], nq))

\* The four local arrays of prioritizeExactMatches when it returns.
matchGroups(components_, query) ==
    LET nq == normalizedQuery(query)
    IN  secondPass(components_, nq, 1, firstPass(components_, nq, 1, EmptyGroups))

\* Variant: the items matched by the API but not by name are left out.
combineGroups_dropOther(g) ==
    g.exactMatches \o g.startsWithMatches \o g.containsMatches

\* Variant: the contains group is spread before the exact group.
combineGroups_containsFirst(g) ==
    g.containsMatches \o g.exactMatches \o g.startsWithMatches \o g.otherMatches

\* return [...exactMatches, ...startsWithMatches, ...containsMatches, ...otherMatches]
combineGroups(g) ==
    g.exactMatches \o g.startsWithMatches \o g.containsMatches \o g.otherMatches

prioritizeExactMatches(components_, query) ==
    combineGroups(matchGroups(components_, query))

\* Variant: the ranking pass runs whatever the query.
rank_noGuard(items, query) == prioritizeExactMatches(items, query)

\* if (searchQuery.trim()) { result = prioritizeExactMatches(result, searchQuery) }
rank(items, query) ==
    IF trim(query) # <<>> THEN prioritizeExactMatches(items, query) ELSE items

\* if (selectedSource) result = result.filter(c => c.source === selectedSource)
filterSource(items, src) ==
    IF src # NoFilter THEN SelectSeq(items, LAMBDA c : c.source = src) ELSE items

\* if (selectedAvailability) result = result.filter(c => c.availability === ...)
filterAvailability(items, av) ==
    IF av # NoFilter THEN SelectSeq(items, LAMBDA c : c.availability = av) ELSE items

applyFilters(componentsToFilter, src, av, query) ==
    rank(filterAvailability(filterSource(componentsToFilter, src), av), query)

\* ------------------------------------------------------------ the renderer
\* c.name.toLowerCase() === searchQuery.toLowerCase()
isExactSection(c, query) == toLowerCase(c.name) = toLowerCase(query)

\* Variant: the Similar section tests includes instead of startsWith.
isSimilarSection_includes(c, query) ==
    /\ includes(toLowerCase(c.name), toLowerCase(query))
    /\ toLowerCase(c.name) # toLowerCase(query)

\* c.name.toLowerCase().startsWith(searchQuery.toLowerCase()) && not exact
isSimilarSection(c, query) ==
    /\ startsWith(toLowerCase(c.name), toLowerCase(query))
    /\ toLowerCase(c.name) # toLowerCase(query)

\* !c.name.toLowerCase().startsWith(searchQuery.toLowerCase()) && not exact
isOtherSection(c, query) ==
    /\ ~startsWith(toLowerCase(c.name), toLowerCase(query))
    /\ toLowerCase(c.name) # toLowerCase(query)

\* Variant: the Exact section keeps one card per source.
exactSection_onePerSource(list, query) ==
    SelectSeq(list, LAMBDA c :
        /\ isExactSection(c, query)
        /\ ~\E k \in 1..Len(list) :
              /\ isExactSection(list[k], query)
              /\ list[k].source = c.source
              /\ list[k].ref < c.ref)

exactSection(list, query) == SelectSeq(list, LAMBDA c : isExactSection(c, query))
similarSection(list, query) == SelectSeq(list, LAMBDA c : isSimilarSection(c, query))
otherSection(list, query) == SelectSeq(list, LAMBDA c : isOtherSection(c, query))

NoSections == [exact |-> <<>>, similar |-> <<>>, other |-> <<>>]

\* The components list of the JSX: which branch is rendered and, for the
\* grouped branch, the cards of each of the three sections.
renderList(isLoading, err, list, query) ==
    IF isLoading THEN [kind |-> "skeleton", sections |-> NoSections]
    ELSE IF err # "" THEN [kind |-> "error", sections |-> NoSections]
    ELSE IF Len(list) = 0 THEN [kind |-> "empty", sections |-> NoSections]
    ELSE IF query # <<>>
    THEN [kind |-> "grouped",
          sections |-> [exact |-> exactSection(list, query),
                        similar |-> similarSection(list, query),
                        other |-> otherSection(list, query)]]
    ELSE [kind |-> "flat", sections |-> NoSections]

\* ---------------------------------------------------------- missing fields
\* A field that the API response leaves out reads as undefined.  The value is
\* a one-element sequence whose element is no character, so that it is
\* distinct from every string.
Undefined == <<"undefined">>

\* A missing source (sources are modelled as plain strings).
UndefinedSource == "undefined"

\* component.name.toLowerCase() raises a TypeError when name is undefined.
nameThrows(c) == c.name = Undefined

\* prioritizeExactMatches: the first forEach reads the name of every component.
prioritizeThrows(components_) ==
    \E i \in 1..Len(components_) : nameThrows(components_[i])

\* applyFilters raises exactly when it calls prioritizeExactMatches on a list
\* holding a component without a name; the two filters only compare fields.
applyFiltersThrows(componentsToFilter, src, av, query) ==
    /\ trim(query) # <<>>
    /\ prioritizeThrows(filterAvailability(filterSource(componentsToFilter, src), av))

\* The predicate of one of the three sections of the grouped branch.
sectionPredicate(section, c, query) ==
    CASE section = "exact" -> isExactSection(c, query)
      [] section = "similar" -> isSimilarSection(c, query)
      [] section = "other" -> isOtherSection(c, query)

\* list.some(pred): the predicate is evaluated up to the first item that
\* satisfies it, and raises on a nameless item reached before that.
someThrows(list, section, query) ==
    \E p \in 1..Len(list) :
        /\ nameThrows(list[p])
        /\ \A k \in 1..(p - 1) :
             ~nameThrows(list[k]) /\ ~sectionPredicate(section, list[k], query)

\* list.some(pred) && list.filter(pred): filter runs when some found an item,
\* and evaluates the predicate on every item.
sectionThrows(list, section, query) ==
    \/ someThrows(list, section, query)
    \/ /\ \E p \in 1..Len(list) :
            /\ ~nameThrows(list[p]) /\ sectionPredicate(section, list[p], query)
            /\ \A k \in 1..(p - 1) : ~nameThrows(list[k])
       /\ \E p \in 1..Len(list) : nameThrows(list[p])

\* The render raises when the grouped branch evaluates a section predicate on
\* a component without a name.
renderListThrows(isLoading, err, list, query) ==
    /\ ~isLoading
    /\ err = ""
    /\ Len(list) > 0
    /\ query # <<>>
    /\ \E section \in {"exact", "similar", "other"} : sectionThrows(list, section, query)

\* ------------------------------------------- fetching and the stored build
\* const componentTypeNames: Record<string, string>
componentTypeNames ==
    [k \in {"cpu", "cpu-cooler", "motherboard", "memory", "storage", "video-card",
            "case", "power-supply", "operating-system", "monitor"} |->
        CASE k = "cpu" -> "CPU"
          [] k = "cpu-cooler" -> "CPU Cooler"
          [] k = "motherboard" -> "Motherboard"
          [] k = "memory" -> "Memory"
          [] k = "storage" -> "Storage"
          [] k = "video-card" -> "Video Card"
          [] k = "case" -> "Case"
          [] k = "power-supply" -> "Power Supply"
          [] k = "operating-system" -> "Operating System"
          [] k = "monitor" -> "Monitor"]

\* const displayName = componentTypeNames[type] || type
displayName(type_) ==
    IF type_ \in DOMAIN componentTypeNames THEN componentTypeNames[type_] ELSE type_

\* Values of the [type] segment of the route: two listed categories and one
\* segment that componentTypeNames does not list.
RouteTypes == {"cpu", "monitor", "gpu"}

\* A component object of an API response, all fields given.
ComponentOf(i, name, source, availability) ==
    [ref |-> i, name |-> name, source |-> source, availability |-> availability]

\* data.components of the responses of /api/components (a body without the
\* field reads as the empty list).
PageResponses ==
    { <<>>,
      << ComponentOf(1, <<"a", "a">>, "Startech", "In Stock"),
         ComponentOf(2, <<"A">>, "Techland", "Out of Stock") >>,
      << ComponentOf(1, <<" ", "a">>, "Startech", "In Stock") >> }

\* How a fetch of components fails: fetch rejects (network error or the 60 s
\* timeout), the status is not OK, or the body is not JSON.
FetchFailures == {"network", "status", "json"}

\* The message of the error caught by fetchComponents.
failureMessage(reason) ==
    CASE reason = "network" ->
           "Network error while fetching components. Please try again."
      [] reason = "status" -> "Server error: 500"
      [] reason = "json" -> "Unexpected end of JSON input"

\* Texts typed in the search box of the component page.
PageQueries == { <<>>, <<"a">> }

\* Array.from(new Set(componentsData.map((comp) => comp.source)))
RECURSIVE uniqueSources(_, _)
uniqueSources(list, seen) ==
    IF list = <<>> THEN <<>>
    ELSE IF Head(list).source \in seen THEN uniqueSources(Tail(list), seen)
    ELSE <<Head(list).source>>
           \o uniqueSources(Tail(list), seen \cup {Head(list).source})

\* The sources that have a button in the Source filter.
FilterButtonSources == {"Startech", "Techland", "UltraTech", "Potaka IT", "PC House"}

Availabilities == {"In Stock", "Out of Stock"}

\* JSON.stringify of a component: the fields are kept, the identity of the
\* object is not.
toJSON(c) == [name |-> c.name, source |-> c.source, availability |-> c.availability]

\* localStorage "pcBuild": never written, or the JSON text of an object.
NoBuild == [present |-> FALSE, build |-> [k \in {} |-> {}]]

\* JSON.stringify(currentBuild)
stringifyBuild(build) == [present |-> TRUE, build |-> build]

\* currentBuildStr ? JSON.parse(currentBuildStr) : {}
parseBuild(blob) == IF blob.present THEN blob.build ELSE [k \in {} |-> {}]

\* Variant: the build is started afresh on every selection.
setBuildKey_fresh(build, key, c) == [k \in {key} |-> toJSON(c)]

\* currentBuild[type] = component, as serialized afterwards
setBuildKey(build, key, c) ==
    [k \in (DOMAIN build) \cup {key} |-> IF k = key THEN toJSON(c) ELSE build[k]]

\* ------------------------------------------------------ prices and badges
\* The currency marker of the price strings, the taka sign (U+09F3), as one
\* character.
Marker == "Tk"

\* Characters of the price strings: the marker, a digit and a space.
PriceChars == {Marker, "1", " "}

\* Longest price string.
MaxPriceLen == 6

Prices == UNION { [1..n -> PriceChars] : n \in 0..MaxPriceLen }

\* The six retailers.
Retailers == {"Startech", "Techland", "UltraTech", "Potaka IT", "PC House", "Skyland"}

\* price.split(Marker), cur being the segment read so far
RECURSIVE splitFrom(_, _)
splitFrom(s, cur) ==
    IF s = <<>> THEN <<cur>>
    ELSE IF Head(s) = Marker THEN <<cur>> \o splitFrom(Tail(s), <<>>)
    ELSE splitFrom(Tail(s), Append(cur, Head(s)))

split(s) == splitFrom(s, <<>>)

\* (p) => p.trim(), as a truth value
trimsToNonEmpty(p) == trim(p) # <<>>

\* The paragraph of a price shown as it is.
RawPrice(price) ==
    [kind |-> "raw", raw |-> price, current |-> <<>>, original |-> <<>>]

\* The two paragraphs of a price with a struck-through original.
TwoPrices(current, original) ==
    [kind |-> "two", raw |-> <<>>, current |-> <<Marker>> \o trim(current),
     original |-> <<Marker>> \o trim(original)]

\* Variant: the segments are taken without filtering out the blank ones.
renderPrice_noFilter(price) ==
    IF includes(price, <<Marker>>) /\ Len(split(price)) > 2
    THEN TwoPrices(split(price)[1], split(price)[2])
    ELSE RawPrice(price)

\* Variant: one marker is enough for the two-amount rendering.
renderPrice_oneMarker(price) ==
    IF includes(price, <<Marker>>) /\ Len(split(price)) > 1
    THEN LET prices == SelectSeq(split(price), trimsToNonEmpty)
         IN  IF Len(prices) >= 2 THEN TwoPrices(prices[1], prices[2])
             ELSE RawPrice(price)
    ELSE RawPrice(price)

\* renderPrice of the component card; ProductCard.renderPrice of the search
\* page is the same code on product.price.
renderPrice(price) ==
    IF includes(price, <<Marker>>) /\ Len(split(price)) > 2
    THEN LET prices == SelectSeq(split(price), trimsToNonEmpty)
         IN  IF Len(prices) >= 2 THEN TwoPrices(prices[1], prices[2])
             ELSE RawPrice(price)
    ELSE RawPrice(price)

\* The short-code in the source badge of ComponentCard.
badgeShortCode(source) ==
    IF source = "Startech" THEN "ST"
    ELSE IF source = "Techland" THEN "TL"
    ELSE IF source = "UltraTech" THEN "UT"
    ELSE IF source = "Potaka IT" THEN "PI"
    ELSE "PC"

\* The short-code in the header of a retailer's section of the search page.
sectionShortCode(source) ==
    CASE source = "Startech" -> "ST"
      [] source = "Techland" -> "TL"
      [] source = "UltraTech" -> "UT"
      [] source = "Potaka IT" -> "PI"
      [] source = "PC House" -> "PC"
      [] source = "Skyland" -> "SK"

\* ========================================================= the search page
\* (src/app/page.tsx)
\* Products the API can return.  The first two share name and source and
\* differ in price only.
Products ==
    { [name |-> "Ryzen 5 5600X", source |-> "Startech", price |-> "100"],
      [name |-> "Ryzen 5 5600X", source |-> "Startech", price |-> "90"],
      [name |-> "RTX 4060", source |-> "Techland", price |-> "300"] }

\* Longest compare list found in storage when the page mounts.
MaxStored == 2

\* Searches issued in one run of the page.
MaxRequests == 2

\* Clicks on "Add to compare" in one run of the page.
MaxClicks == 3

\* const [productsPerPage] = useState(20)
productsPerPage == 20

\* localStorage.getItem returns null for a key never written.
Absent == [present |-> FALSE, list |-> <<>>]

\* JSON.stringify of an array of products, as stored under a key.  Products
\* hold string fields only, so JSON.parse gives back equal values.
stringify(list) == [present |-> TRUE, list |-> list]

\* JSON.parse of a stored blob.
parse(blob) == blob.list

\* item.name === product.name && item.source === product.source
sameKey(item, product) ==
    item.name = product.name /\ item.source = product.source

\* compareList.some((item) => ...)
inCompareList(list, product) ==
    \E i \in 1..Len(list) : sameKey(list[i], product)

\* Variant: the product is appended without looking it up.
addToCompare_noCheck(list, product) == Append(list, product)

\* addToCompare: the list passed to setCompareList, or the list unchanged.
addToCompare(list, product) ==
    IF ~inCompareList(list, product) THEN Append(list, product) ELSE list

\* The products state: an array, or undefined after setProducts(undefined).
ProductsArray(items) == [isArray |-> TRUE, items |-> items]
ProductsUndefined == [isArray |-> FALSE, items |-> <<>>]

\* A response with as many products as six retailers times productsPerPage.
FullResponse ==
    [i \in 1..(productsPerPage * 6) |->
        [name |-> "RTX 4060", source |-> "Techland", price |-> "300"]]

\* Bodies of the responses of /api/products.
ResponseLists ==
    { <<>>,
      FullResponse,
      << [name |-> "Ryzen 5 5600X", source |-> "Startech", price |-> "100"],
         [name |-> "RTX 4060", source |-> "Techland", price |-> "300"] >>,
      << [name |-> "Ryzen 5 5600X", source |-> "Startech", price |-> "90"] >> }

\* How a request ends: fetch rejects, the status is not OK, the body is not
\* JSON, the body has no products field, or the body has a products array.
FailedOutcomes == {"networkError", "notOk", "badJson", "noProducts"}

Outcomes ==
    { [kind |-> k, products |-> <<>>] : k \in FailedOutcomes }
      \cup { [kind |-> "ok", products |-> l] : l \in ResponseLists }

\* The query of the "Search for Ryzen CPUs" button.
RyzenQuery == <<"r", "y", "z", "e", "n">>

\* Highest page number the model lets the pagination reach.
MaxPage == 3

\* Texts typed in the search box.
HomeQueries == { <<>>, <<" ">>, <<"r", "y", "z", "e", "n">> }

\* searchParams.get("query"): null, or the query of the URL.
UrlQueries == { <<>>, <<"r", "t", "x">> }

\* Compare lists without two entries of equal name and source.
NoDuplicateKeys(list) ==
    \A i, j \in 1..Len(list) : (i # j) => ~sameKey(list[i], list[j])

StoredLists ==
    { l \in UNION {[1..n -> Products] : n \in 0..MaxStored} : NoDuplicateKeys(l) }

\* ------------------------------------------------------------------- state
VARIABLES
    components,            \* useState<Component[]>
    filteredComponents,    \* useState<Component[]>
    loading,               \* useState(true)
    error,                 \* useState("")
    searchQuery,           \* useState("")
    selectedSource,        \* useState<string | null>
    selectedAvailability,  \* useState<string | null>
    groups,                \* local arrays of the last prioritizeExactMatches call
    view,                  \* what the last render put on screen
    pc,                    \* position: "fetched" -> "filtered" -> "rendered"
    thrown                 \* error raised by the last effect or render, or "none"

\* Further state of the component-selection page.
VARIABLES
    type,                  \* params.type
    searching,             \* useState(false)
    availableSources,      \* useState<string[]>([])
    fetches,               \* calls of fetchComponents awaiting the response
    lastFetch,             \* the last completed call of fetchComponents: how
                           \* it ended and the values it had kept
    lastSelect,            \* argument and currentBuildStr of handleSelectComponent
    pcBuild                \* localStorage "pcBuild"

pageVars == <<type, searching, availableSources, fetches, lastFetch, lastSelect,
              pcBuild>>

rankVars == <<components, filteredComponents, loading, error, searchQuery,
              selectedSource, selectedAvailability, groups, view, pc, thrown,
              pageVars>>

\* State of the search page (src/app/page.tsx) and of its storage key.
VARIABLES
    homeQuery,             \* useState("")  (query)
    products,              \* useState<Product[]>([])
    homeLoading,           \* useState(false)  (loading)
    homeError,             \* useState("")  (error)
    compareList,           \* useState<Product[]>([])
    homePage,              \* useState(1)  (page)
    hasMore,               \* useState(false)
    initialQueryProcessed, \* React.useRef(false)
    urlQuery,              \* searchParams.get("query")
    storedCompareList,     \* localStorage "compareList"
    inflight,              \* requests awaiting their response
    issued,                \* number of requests issued so far
    homePhase,             \* "mounted" -> "loaded" -> "ready" | "crashed"
    savePending,           \* compareList changed since the save effect ran
    lastEvent,             \* the last handler that ran, with its argument
    shownRequest,          \* the request whose response setProducts stored last
    timers,                \* pending setTimeout callbacks of loadMoreProducts
    storedAtMount          \* localStorage "compareList" when the page mounted

homeMore == <<shownRequest, timers, storedAtMount>>

homeVars == <<homeQuery, products, homeLoading, homeError, compareList, homePage,
              hasMore, initialQueryProcessed, urlQuery, storedCompareList,
              inflight, issued, homePhase, savePending, lastEvent, homeMore>>

\* Two cards of two retailers (and the headers of their sections on the search
\* page), the first card with a price.
VARIABLES
    cardPrice,             \* component.price / product.price of the first card
    cardSources,           \* the source of each of the two cards
    cardView,              \* what is displayed
    cardPhase              \* "idle", "given" (props passed) or "rendered"

cardVars == <<cardPrice, cardSources, cardView, cardPhase>>

vars == <<rankVars, homeVars, cardVars>>

NoCardView == [price |-> RawPrice(<<>>), badges |-> <<"", "">>, headers |-> <<"", "">>]

\* No card is studied.
CardIdle ==
    /\ cardPrice = <<>>
    /\ cardSources = <<"Startech", "Startech">>
    /\ cardView = NoCardView
    /\ cardPhase = "idle"

NoEvent == [kind |-> "none", n |-> 0, arg |-> "none"]

\* The search page is not mounted.
HomeIdle ==
    /\ homeQuery = <<>>
    /\ products = ProductsArray(<<>>)
    /\ homeLoading = FALSE
    /\ homeError = ""
    /\ compareList = <<>>
    /\ homePage = 1
    /\ hasMore = FALSE
    /\ initialQueryProcessed = FALSE
    /\ urlQuery = <<>>
    /\ storedCompareList = Absent
    /\ inflight = {}
    /\ issued = 0
    /\ homePhase = "unmounted"
    /\ savePending = FALSE
    /\ lastEvent = NoEvent
    /\ shownRequest = 0
    /\ timers = 0
    /\ storedAtMount = Absent

\* No call of fetchComponents has completed.
NoFetch == [outcome |-> "none",
            call |-> [search |-> <<>>, searchQuery |-> <<>>,
                      selectedSource |-> NoFilter, selectedAvailability |-> NoFilter]]

NoSelect == [component |-> toJSON(ComponentOf(0, <<>>, "", "")),
             currentBuildStr |-> NoBuild]

\* The further state of the component page when only the ranking is studied.
PageIdle ==
    /\ type = "cpu"
    /\ searching = FALSE
    /\ availableSources = <<>>
    /\ fetches = <<>>
    /\ lastFetch = NoFetch
    /\ lastSelect = NoSelect
    /\ pcBuild = NoBuild

\* The component-selection page is not mounted.
RankIdle ==
    /\ PageIdle
    /\ components = <<>>
    /\ filteredComponents = <<>>
    /\ loading = FALSE
    /\ error = ""
    /\ searchQuery = <<>>
    /\ selectedSource = NoFilter
    /\ selectedAvailability = NoFilter
    /\ groups = EmptyGroups
    /\ view = [kind |-> "skeleton", sections |-> NoSections]
    /\ pc = "unmounted"
    /\ thrown = "none"

\* A component object parsed from the API response; ref is the identity of
\* the object (its position in the response array).
Component(i, name, source) ==
    [ref |-> i, name |-> name, source |-> source, availability |-> "In Stock"]

\* State after a successful fetch of any list of at most MaxItems components
\* with any query typed in the search box, before the filter effect has run.
InitRank ==
    /\ \E n \in 0..MaxItems :
         \E names \in [1..n -> Strings], srcs \in [1..n -> Sources] :
            components = [i \in 1..n |-> Component(i, names[i], srcs[i])]
    /\ searchQuery \in Strings
    /\ filteredComponents = <<>>
    /\ loading = FALSE
    /\ error = ""
    /\ selectedSource = NoFilter
    /\ selectedAvailability = NoFilter
    /\ groups = EmptyGroups
    /\ view = [kind |-> "skeleton", sections |-> NoSections]
    /\ pc = "fetched"
    /\ thrown = "none"
    /\ PageIdle
    /\ HomeIdle
    /\ CardIdle

\* useEffect(() => { applyFilters(components) }, [...])
ApplyFiltersEffect ==
    /\ pc = "fetched"
    /\ IF applyFiltersThrows(components, selectedSource, selectedAvailability,
                             searchQuery)
       THEN /\ thrown' = "TypeError"
            /\ pc' = "crashed"
            /\ UNCHANGED <<filteredComponents, groups>>
       ELSE /\ filteredComponents' =
                 applyFilters(components, selectedSource, selectedAvailability,
                              searchQuery)
            /\ groups' =
                 IF trim(searchQuery) # <<>>
                 THEN matchGroups(
                        filterAvailability(filterSource(components, selectedSource),
                                           selectedAvailability), searchQuery)
                 ELSE EmptyGroups
            /\ pc' = "filtered"
            /\ UNCHANGED thrown
    /\ UNCHANGED <<components, loading, error, searchQuery, selectedSource,
                   selectedAvailability, view>>
    /\ UNCHANGED <<pageVars, homeVars, cardVars>>

\* Re-render after setFilteredComponents.
Render ==
    /\ pc = "filtered"
    /\ IF renderListThrows(loading, error, filteredComponents, searchQuery)
       THEN /\ thrown' = "TypeError"
            /\ pc' = "crashed"
            /\ UNCHANGED view
       ELSE /\ view' = renderList(loading, error, filteredComponents, searchQuery)
            /\ pc' = "rendered"
            /\ UNCHANGED thrown
    /\ UNCHANGED <<components, filteredComponents, loading, error, searchQuery,
                   selectedSource, selectedAvailability, groups>>
    /\ UNCHANGED <<pageVars, homeVars, cardVars>>

NextRank == ApplyFiltersEffect \/ Render

SpecRank == InitRank /\ [][NextRank]_vars

\* Longest list of raw response items, fields possibly missing.
MaxRawItems == 2

\* State after a fetch whose response items may lack the name or the source.
InitMissing ==
    /\ \E n \in 0..MaxRawItems :
         \E names \in [1..n -> Strings \cup {Undefined}],
            srcs \in [1..n -> Sources \cup {UndefinedSource}] :
            components = [i \in 1..n |-> Component(i, names[i], srcs[i])]
    /\ searchQuery \in Strings
    /\ filteredComponents = <<>>
    /\ loading = FALSE
    /\ error = ""
    /\ selectedSource = NoFilter
    /\ selectedAvailability = NoFilter
    /\ groups = EmptyGroups
    /\ view = [kind |-> "skeleton", sections |-> NoSections]
    /\ pc = "fetched"
    /\ thrown = "none"
    /\ PageIdle
    /\ HomeIdle
    /\ CardIdle

SpecMissing == InitMissing /\ [][NextRank]_vars

\* -------------------------------------------- component page: the handlers
\* pc is the position of the page in React's cycle: "mounted" after the first
\* render, "fetched" when a dependency of the filter effect has changed and
\* the effect is due, "filtered" when a re-render is due, "rendered" when the
\* page is settled and waits for an event, "left" after router.push("/build").

\* Most calls of fetchComponents that the model lets wait at the same time.
MaxInflight == 2

\* The first render of the page, for the route segment and the stored build
\* given by type and pcBuild.
PageFirstRender ==
    /\ components = <<>>
    /\ filteredComponents = <<>>
    /\ loading = TRUE
    /\ searching = FALSE
    /\ error = ""
    /\ searchQuery = <<>>
    /\ selectedSource = NoFilter
    /\ selectedAvailability = NoFilter
    /\ availableSources = <<>>
    /\ groups = EmptyGroups
    /\ view = renderList(TRUE, "", <<>>, <<>>)
    /\ pc = "mounted"
    /\ thrown = "none"
    /\ fetches = <<>>
    /\ lastFetch = NoFetch
    /\ lastSelect = NoSelect
    /\ HomeIdle
    /\ CardIdle

\* The page /build/components/cpu opened with no build stored.
InitPage ==
    /\ PageFirstRender
    /\ type = "cpu"
    /\ pcBuild = NoBuild

\* The page opened for any route segment, with no build stored.
InitBuild ==
    /\ PageFirstRender
    /\ type \in RouteTypes
    /\ pcBuild = NoBuild

\* fetchComponents(query) up to its await: the request is sent and the call
\* keeps the filters and the query of the render that created it.
fetchComponentsStart(query) ==
    /\ Len(fetches) < MaxInflight
    /\ loading' = TRUE
    /\ error' = ""
    /\ fetches' = Append(fetches, [search |-> query,
                                   searchQuery |-> searchQuery,
                                   selectedSource |-> selectedSource,
                                   selectedAvailability |-> selectedAvailability])

RemoveAt(seq, i) == SubSeq(seq, 1, i - 1) \o SubSeq(seq, i + 1, Len(seq))

\* The effects of the first render: fetchComponents(), then the filter effect
\* on the empty list.
PageMountEffects ==
    /\ pc = "mounted"
    /\ fetchComponentsStart(Undefined)
    /\ filteredComponents' =
         applyFilters(components, selectedSource, selectedAvailability, searchQuery)
    /\ pc' = "filtered"
    /\ UNCHANGED <<components, searchQuery, selectedSource, selectedAvailability,
                   groups, view, thrown>>
    /\ UNCHANGED <<type, searching, availableSources, lastFetch, lastSelect, pcBuild>>
    /\ UNCHANGED <<homeVars, cardVars>>

\* Variant: the response is stored without the filter effect being due.
PageFetchSucceeds_noEffect(i, data) ==
    /\ pc = "rendered"
    /\ i \in 1..Len(fetches)
    /\ components' = data
    /\ availableSources' = uniqueSources(data, {})
    /\ filteredComponents' =
         applyFilters(data, fetches[i].selectedSource,
                      fetches[i].selectedAvailability, fetches[i].searchQuery)
    /\ loading' = FALSE
    /\ searching' = FALSE
    /\ fetches' = RemoveAt(fetches, i)
    /\ lastFetch' = [outcome |-> "ok", call |-> fetches[i]]
    /\ pc' = "filtered"
    /\ UNCHANGED <<error, groups, searchQuery, selectedSource, selectedAvailability,
                   view, thrown>>
    /\ UNCHANGED <<type, lastSelect, pcBuild>>
    /\ UNCHANGED <<homeVars, cardVars>>

\* fetchComponents after its await, response OK with components data: the
\* rest of the try block and the finally block.
PageFetchSucceeds(i, data) ==
    /\ pc = "rendered"
    /\ i \in 1..Len(fetches)
    /\ components' = data
    /\ availableSources' = uniqueSources(data, {})
    /\ IF applyFiltersThrows(data, fetches[i].selectedSource,
                             fetches[i].selectedAvailability, fetches[i].searchQuery)
       THEN /\ error' = "Cannot read properties of undefined (reading 'toLowerCase')"
            /\ filteredComponents' = <<>>
            /\ UNCHANGED groups
       ELSE /\ filteredComponents' =
                 applyFilters(data, fetches[i].selectedSource,
                              fetches[i].selectedAvailability, fetches[i].searchQuery)
            /\ groups' =
                 IF trim(fetches[i].searchQuery) # <<>>
                 THEN matchGroups(
                        filterAvailability(
                          filterSource(data, fetches[i].selectedSource),
                          fetches[i].selectedAvailability), fetches[i].searchQuery)
                 ELSE EmptyGroups
            /\ UNCHANGED error
    /\ loading' = FALSE
    /\ searching' = FALSE
    /\ fetches' = RemoveAt(fetches, i)
    /\ lastFetch' = [outcome |-> "ok", call |-> fetches[i]]
    /\ pc' = "fetched"
    /\ UNCHANGED <<searchQuery, selectedSource, selectedAvailability, view, thrown>>
    /\ UNCHANGED <<type, lastSelect, pcBuild>>
    /\ UNCHANGED <<homeVars, cardVars>>

\* Variant: the catch block leaves the displayed list in place.
PageFetchFails_keepList(i, reason) ==
    /\ pc = "rendered"
    /\ i \in 1..Len(fetches)
    /\ error' = failureMessage(reason)
    /\ loading' = FALSE
    /\ searching' = FALSE
    /\ fetches' = RemoveAt(fetches, i)
    /\ lastFetch' = [outcome |-> "failed", call |-> fetches[i]]
    /\ pc' = "filtered"
    /\ UNCHANGED <<components, filteredComponents, groups, searchQuery,
                   selectedSource, selectedAvailability, view, thrown>>
    /\ UNCHANGED <<type, availableSources, lastSelect, pcBuild>>
    /\ UNCHANGED <<homeVars, cardVars>>

\* fetchComponents after its await, the fetch having failed: the catch block
\* and the finally block.
PageFetchFails(i, reason) ==
    /\ pc = "rendered"
    /\ i \in 1..Len(fetches)
    /\ error' = failureMessage(reason)
    /\ filteredComponents' = <<>>
    /\ loading' = FALSE
    /\ searching' = FALSE
    /\ fetches' = RemoveAt(fetches, i)
    /\ lastFetch' = [outcome |-> "failed", call |-> fetches[i]]
    /\ pc' = "filtered"
    /\ UNCHANGED <<components, groups, searchQuery, selectedSource,
                   selectedAvailability, view, thrown>>
    /\ UNCHANGED <<type, availableSources, lastSelect, pcBuild>>
    /\ UNCHANGED <<homeVars, cardVars>>

\* onChange of the search box.
PageType(q) ==
    /\ pc = "rendered"
    /\ ~(loading \/ searching)
    /\ q # searchQuery
    /\ searchQuery' = q
    /\ pc' = "fetched"
    /\ UNCHANGED <<components, filteredComponents, loading, error, selectedSource,
                   selectedAvailability, groups, view, thrown, pageVars>>
    /\ UNCHANGED <<homeVars, cardVars>>

\* onClick of a button of the Source filter ("All" is NoFilter).
PageSelectSource(s) ==
    /\ pc = "rendered"
    /\ ~loading
    /\ \/ s = NoFilter
       \/ s \in FilterButtonSources /\ arrayIncludes(availableSources, s)
    /\ s # selectedSource
    /\ selectedSource' = s
    /\ pc' = "fetched"
    /\ UNCHANGED <<components, filteredComponents, loading, error, searchQuery,
                   selectedAvailability, groups, view, thrown, pageVars>>
    /\ UNCHANGED <<homeVars, cardVars>>

\* onClick of a button of the Availability filter.
PageSelectAvailability(a) ==
    /\ pc = "rendered"
    /\ ~loading
    /\ a # selectedAvailability
    /\ selectedAvailability' = a
    /\ pc' = "fetched"
    /\ UNCHANGED <<components, filteredComponents, loading, error, searchQuery,
                   selectedSource, groups, view, thrown, pageVars>>
    /\ UNCHANGED <<homeVars, cardVars>>

\* Variant: the search controls stay enabled while loading or searching.
handleSearch_enabled ==
    /\ pc = "rendered"
    /\ IF trim(searchQuery) = <<>>
       THEN /\ fetchComponentsStart(Undefined)
            /\ UNCHANGED searching
       ELSE /\ searching' = TRUE
            /\ fetchComponentsStart(searchQuery)
    /\ pc' = "filtered"
    /\ UNCHANGED <<components, filteredComponents, searchQuery, selectedSource,
                   selectedAvailability, groups, view, thrown>>
    /\ UNCHANGED <<type, availableSources, lastFetch, lastSelect, pcBuild>>
    /\ UNCHANGED <<homeVars, cardVars>>

\* handleSearch: Enter in the search box or a click on the search button.
handleSearch ==
    /\ pc = "rendered"
    /\ ~(loading \/ searching)
    /\ IF trim(searchQuery) = <<>>
       THEN /\ fetchComponentsStart(Undefined)
            /\ UNCHANGED searching
       ELSE /\ searching' = TRUE
            /\ fetchComponentsStart(searchQuery)
    /\ pc' = "filtered"
    /\ UNCHANGED <<components, filteredComponents, searchQuery, selectedSource,
                   selectedAvailability, groups, view, thrown>>
    /\ UNCHANGED <<type, availableSources, lastFetch, lastSelect, pcBuild>>
    /\ UNCHANGED <<homeVars, cardVars>>

\* onClick of "Try Again" in the error panel.
PageTryAgain ==
    /\ pc = "rendered"
    /\ view.kind = "error"
    /\ fetchComponentsStart(Undefined)
    /\ pc' = "filtered"
    /\ UNCHANGED <<components, filteredComponents, searchQuery, selectedSource,
                   selectedAvailability, groups, view, thrown>>
    /\ UNCHANGED <<type, searching, availableSources, lastFetch, lastSelect, pcBuild>>
    /\ UNCHANGED <<homeVars, cardVars>>

\* onClick of "Clear Filters" in the "No components found" panel.
PageClearFilters ==
    /\ pc = "rendered"
    /\ view.kind = "empty"
    /\ searchQuery' = <<>>
    /\ selectedSource' = NoFilter
    /\ selectedAvailability' = NoFilter
    /\ fetchComponentsStart(Undefined)
    /\ pc' = IF <<searchQuery, selectedSource, selectedAvailability>>
                  = <<<<>>, NoFilter, NoFilter>>
             THEN "filtered" ELSE "fetched"
    /\ UNCHANGED <<components, filteredComponents, groups, view, thrown>>
    /\ UNCHANGED <<type, searching, availableSources, lastFetch, lastSelect, pcBuild>>
    /\ UNCHANGED <<homeVars, cardVars>>

\* handleSelectComponent(component): a click on a displayed card.
handleSelectComponent(i) ==
    /\ pc = "rendered"
    /\ view.kind \in {"grouped", "flat"}
    /\ i \in 1..Len(filteredComponents)
    /\ lastSelect' = [component |-> toJSON(filteredComponents[i]),
                      currentBuildStr |-> pcBuild]
    /\ pcBuild' = stringifyBuild(
                    setBuildKey(parseBuild(pcBuild), type, filteredComponents[i]))
    /\ pc' = "left"
    /\ UNCHANGED <<components, filteredComponents, loading, error, searchQuery,
                   selectedSource, selectedAvailability, groups, view, thrown>>
    /\ UNCHANGED <<type, searching, availableSources, fetches, lastFetch>>
    /\ UNCHANGED <<homeVars, cardVars>>

\* onClick of "Back to Build": router.push("/build") without a selection.
PageBack ==
    /\ pc = "rendered"
    /\ pc' = "left"
    /\ UNCHANGED <<components, filteredComponents, loading, error, searchQuery,
                   selectedSource, selectedAvailability, groups, view, thrown,
                   pageVars>>
    /\ UNCHANGED <<homeVars, cardVars>>

\* From the build page the user opens the selection page of a category: the
\* page is mounted anew; calls still waiting belong to the page that was left.
PageOpen(t) ==
    /\ pc = "left"
    /\ type' = t
    /\ components' = <<>>
    /\ filteredComponents' = <<>>
    /\ loading' = TRUE
    /\ searching' = FALSE
    /\ error' = ""
    /\ searchQuery' = <<>>
    /\ selectedSource' = NoFilter
    /\ selectedAvailability' = NoFilter
    /\ availableSources' = <<>>
    /\ groups' = EmptyGroups
    /\ view' = renderList(TRUE, "", <<>>, <<>>)
    /\ pc' = "mounted"
    /\ fetches' = <<>>
    /\ lastFetch' = NoFetch
    /\ lastSelect' = NoSelect
    /\ UNCHANGED <<thrown, pcBuild>>
    /\ UNCHANGED <<homeVars, cardVars>>

\* One visit of the page with every event of the page.
NextPage ==
    \/ PageMountEffects
    \/ \E i \in 1..MaxInflight, data \in PageResponses : PageFetchSucceeds(i, data)
    \/ \E i \in 1..MaxInflight, reason \in FetchFailures : PageFetchFails(i, reason)
    \/ ApplyFiltersEffect
    \/ Render
    \/ \E q \in PageQueries : PageType(q)
    \/ \E s \in FilterButtonSources \cup {NoFilter} : PageSelectSource(s)
    \/ \E a \in Availabilities \cup {NoFilter} : PageSelectAvailability(a)
    \/ handleSearch
    \/ PageTryAgain
    \/ PageClearFilters
    \/ \E i \in 1..MaxItems : handleSelectComponent(i)
    \/ PageBack

SpecPage == InitPage /\ [][NextPage]_vars

\* Visits of the selection pages one after the other, every fetch succeeding
\* and the filters left alone.
NextBuild ==
    \/ PageMountEffects
    \/ \E i \in 1..MaxInflight, data \in PageResponses : PageFetchSucceeds(i, data)
    \/ ApplyFiltersEffect
    \/ Render
    \/ \E i \in 1..MaxItems : handleSelectComponent(i)
    \/ PageBack
    \/ \E t \in RouteTypes : PageOpen(t)

SpecBuild == InitBuild /\ [][NextBuild]_vars

\* ----------------------------------------------- search page: the handlers
\* The search page right after its first render, before any effect has run.
InitHome ==
    /\ homeQuery = <<>>
    /\ products = ProductsArray(<<>>)
    /\ homeLoading = FALSE
    /\ homeError = ""
    /\ compareList = <<>>
    /\ homePage = 1
    /\ hasMore = FALSE
    /\ initialQueryProcessed = FALSE
    /\ urlQuery \in UrlQueries
    /\ storedCompareList \in {Absent} \cup {stringify(l) : l \in StoredLists}
    /\ inflight = {}
    /\ issued = 0
    /\ homePhase = "mounted"
    /\ savePending = FALSE
    /\ lastEvent = NoEvent
    /\ shownRequest = 0
    /\ timers = 0
    /\ storedAtMount = storedCompareList
    /\ RankIdle
    /\ CardIdle

\* searchProducts(resetPage, searchQuery) up to the await of fetch.
searchProductsStart(resetPage, q) ==
    IF trim(q) = <<>>
    THEN UNCHANGED <<homePage, homeLoading, homeError, inflight, issued>>
    ELSE /\ homePage' = IF resetPage THEN 1 ELSE homePage
         /\ homeLoading' = TRUE
         /\ homeError' = ""
         /\ inflight' = inflight \cup {[id |-> issued + 1, q |-> q]}
         /\ issued' = issued + 1

\* The effects of the first render, in source order: load the compare list
\* and process the URL query; copy the URL query; save the compare list of
\* the first render (the empty list).
HomeMountEffects ==
    /\ homePhase = "mounted"
    /\ compareList' =
         IF storedCompareList.present THEN parse(storedCompareList) ELSE compareList
    /\ savePending' = storedCompareList.present
    /\ IF urlQuery # <<>> /\ ~initialQueryProcessed
       THEN /\ homeQuery' = urlQuery
            /\ initialQueryProcessed' = TRUE
            /\ searchProductsStart(TRUE, urlQuery)
       ELSE UNCHANGED <<homeQuery, initialQueryProcessed, homePage, homeLoading,
                        homeError, inflight, issued>>
    /\ storedCompareList' = stringify(compareList)
    /\ homePhase' = "ready"
    /\ UNCHANGED <<products, hasMore, urlQuery, lastEvent>>
    /\ UNCHANGED homeMore
    /\ UNCHANGED <<rankVars, cardVars>>

\* useEffect(() => localStorage.setItem("compareList", ...), [compareList])
HomeSaveEffect ==
    /\ homePhase = "ready"
    /\ savePending
    /\ storedCompareList' = stringify(compareList)
    /\ savePending' = FALSE
    /\ UNCHANGED <<homeQuery, products, homeLoading, homeError, compareList,
                   homePage, hasMore, initialQueryProcessed, urlQuery, inflight,
                   issued, homePhase, lastEvent>>
    /\ UNCHANGED homeMore
    /\ UNCHANGED <<rankVars, cardVars>>

\* Handlers run once the effects of the last render have run.
HomeReady == homePhase = "ready" /\ ~savePending

\* onChange={(e) => setQuery(e.target.value)}
HomeType(q) ==
    /\ HomeReady
    /\ q # homeQuery
    /\ homeQuery' = q
    /\ lastEvent' = [kind |-> "type", n |-> lastEvent.n, arg |-> "none"]
    /\ UNCHANGED <<products, homeLoading, homeError, compareList, homePage, hasMore,
                   initialQueryProcessed, urlQuery, storedCompareList, inflight,
                   issued, homePhase, savePending>>
    /\ UNCHANGED homeMore
    /\ UNCHANGED <<rankVars, cardVars>>

\* Enter in the search box (never disabled) or a click on Search: searchProducts()
HomeSearch ==
    /\ HomeReady
    /\ issued < MaxRequests
    /\ searchProductsStart(TRUE, homeQuery)
    /\ lastEvent' = [kind |-> "search", n |-> lastEvent.n, arg |-> "none"]
    /\ UNCHANGED <<homeQuery, products, compareList, hasMore, initialQueryProcessed,
                   urlQuery, storedCompareList, homePhase, savePending>>
    /\ UNCHANGED homeMore
    /\ UNCHANGED <<rankVars, cardVars>>

\* The rest of searchProducts, from the response of fetch to the finally block,
\* and the render that follows.
HomeResponse(r, o) ==
    /\ HomeReady
    /\ r \in inflight
    /\ inflight' = inflight \ {r}
    /\ homeLoading' = FALSE
    /\ IF o.kind = "ok"
       THEN /\ products' = ProductsArray(o.products)
            /\ hasMore' = (Len(o.products) >= productsPerPage * 6)
            /\ UNCHANGED <<homeError, homePhase>>
       ELSE IF o.kind = "noProducts"
       THEN \* setProducts(undefined); data.products.length raises; the next
            \* render raises on products.filter
            /\ products' = ProductsUndefined
            /\ homeError' = "An error occurred while fetching products"
            /\ homePhase' = "crashed"
            /\ UNCHANGED hasMore
       ELSE /\ homeError' = "An error occurred while fetching products"
            /\ UNCHANGED <<products, hasMore, homePhase>>
    /\ shownRequest' = IF o.kind \in {"ok", "noProducts"} THEN r.id ELSE shownRequest
    /\ lastEvent' = [kind |-> "response", n |-> lastEvent.n, arg |-> o.kind]
    /\ UNCHANGED <<homeQuery, compareList, homePage, initialQueryProcessed, urlQuery,
                   storedCompareList, issued, savePending, timers, storedAtMount>>
    /\ UNCHANGED <<rankVars, cardVars>>

\* onClick={(e) => addToCompare(e, product)} on a displayed product card
HomeAddToCompare(product) ==
    /\ HomeReady
    /\ lastEvent.n < MaxClicks
    /\ products.isArray
    /\ product \in {products.items[i] : i \in 1..Len(products.items)}
    /\ compareList' = addToCompare(compareList, product)
    /\ savePending' = ~inCompareList(compareList, product)
    /\ lastEvent' = [kind |-> "add", n |-> lastEvent.n + 1, arg |-> product]
    /\ UNCHANGED <<homeQuery, products, homeLoading, homeError, homePage, hasMore,
                   initialQueryProcessed, urlQuery, storedCompareList, inflight,
                   issued, homePhase>>
    /\ UNCHANGED homeMore
    /\ UNCHANGED <<rankVars, cardVars>>

\* onClick of "Search for Ryzen CPUs" in the "No products found" panel:
\* setQuery("ryzen"); searchProducts() -- the call reads the query of the
\* render that created the handler.
HomeSearchRyzen ==
    /\ HomeReady
    /\ issued < MaxRequests
    /\ products.isArray /\ Len(products.items) = 0 /\ ~homeLoading
    /\ homeQuery' = RyzenQuery
    /\ searchProductsStart(TRUE, homeQuery)
    /\ lastEvent' = [kind |-> "ryzen", n |-> lastEvent.n, arg |-> "none"]
    /\ UNCHANGED <<products, compareList, hasMore, initialQueryProcessed,
                   urlQuery, storedCompareList, homePhase, savePending>>
    /\ UNCHANGED homeMore
    /\ UNCHANGED <<rankVars, cardVars>>

\* loadMoreProducts: onClick of "Next" in the pagination controls.
loadMoreProducts ==
    /\ HomeReady
    /\ homePage < MaxPage
    /\ products.isArray /\ Len(products.items) > 0
    /\ hasMore /\ ~homeLoading
    /\ homePage' = homePage + 1
    /\ homeLoading' = TRUE
    /\ timers' = timers + 1
    /\ lastEvent' = [kind |-> "next", n |-> lastEvent.n, arg |-> "none"]
    /\ UNCHANGED <<homeQuery, products, homeError, compareList, hasMore,
                   initialQueryProcessed, urlQuery, storedCompareList, inflight,
                   issued, homePhase, savePending, shownRequest, storedAtMount>>
    /\ UNCHANGED <<rankVars, cardVars>>

\* The callback of loadMoreProducts' setTimeout, one second later.
HomeLoadMoreTimer ==
    /\ HomeReady
    /\ timers > 0
    /\ timers' = timers - 1
    /\ homeLoading' = FALSE
    /\ hasMore' = FALSE
    /\ lastEvent' = [kind |-> "timer", n |-> lastEvent.n, arg |-> "none"]
    /\ UNCHANGED <<homeQuery, products, homeError, compareList, homePage,
                   initialQueryProcessed, urlQuery, storedCompareList, inflight,
                   issued, homePhase, savePending, shownRequest, storedAtMount>>
    /\ UNCHANGED <<rankVars, cardVars>>

\* onClick of "Previous" in the pagination controls.
HomePreviousPage ==
    /\ HomeReady
    /\ products.isArray /\ Len(products.items) > 0
    /\ hasMore /\ homePage # 1 /\ ~homeLoading
    /\ homePage' = IF homePage - 1 > 1 THEN homePage - 1 ELSE 1
    /\ lastEvent' = [kind |-> "previous", n |-> lastEvent.n, arg |-> "none"]
    /\ UNCHANGED <<homeQuery, products, homeLoading, homeError, compareList, hasMore,
                   initialQueryProcessed, urlQuery, storedCompareList, inflight,
                   issued, homePhase, savePending>>
    /\ UNCHANGED homeMore
    /\ UNCHANGED <<rankVars, cardVars>>

NextHome ==
    \/ HomeSearchRyzen
    \/ loadMoreProducts
    \/ HomeLoadMoreTimer
    \/ HomePreviousPage
    \/ HomeMountEffects
    \/ HomeSaveEffect
    \/ \E q \in HomeQueries : HomeType(q)
    \/ HomeSearch
    \/ \E r \in inflight, o \in Outcomes : HomeResponse(r, o)
    \/ \E product \in Products : HomeAddToCompare(product)

SpecHome == InitHome /\ [][NextHome]_vars

\* ------------------------------------------------------- cards: rendering
\* Two cards are given any two retailers, the first any price string.
InitCard ==
    /\ cardPrice \in Prices
    /\ cardSources \in Retailers \X Retailers
    /\ cardView = NoCardView
    /\ cardPhase = "given"
    /\ RankIdle
    /\ HomeIdle

\* The cards and the section headers are rendered.
RenderCards ==
    /\ cardPhase = "given"
    /\ cardView' = [price |-> renderPrice(cardPrice),
                    badges |-> <<badgeShortCode(cardSources[1]),
                                 badgeShortCode(cardSources[2])>>,
                    headers |-> <<sectionShortCode(cardSources[1]),
                                  sectionShortCode(cardSources[2])>>]
    /\ cardPhase' = "rendered"
    /\ UNCHANGED <<cardPrice, cardSources>>
    /\ UNCHANGED <<rankVars, homeVars>>

NextCard == RenderCards

SpecCard == InitCard /\ [][NextCard]_vars

\* ================================================================== claims
\* Helpers of the properties below.
Has(seq, c) == \E i \in 1..Len(seq) : seq[i] = c

PosIn(seq, c) == CHOOSE i \in 1..Len(seq) : seq[i] = c

InInputOrder(seq) ==
    \A p, q \in 1..Len(seq) : p < q => seq[p].ref < seq[q].ref

\* The filter effect has run on the fetched list (no source/availability filter).
Ranked ==
    /\ pc \in {"filtered", "rendered"}
    /\ selectedSource = NoFilter
    /\ selectedAvailability = NoFilter

\* The query is neither empty nor whitespace-only.
NonBlankQuery == trim(searchQuery) # <<>>

\* The name equals the trimmed query up to letter case.
NameIsQuery(c) == toLowerCase(c.name) = toLowerCase(trim(searchQuery))

\* The name contains the trimmed query (up to case) but does not start with it.
NameContainsOnly(c) ==
    /\ includes(toLowerCase(c.name), toLowerCase(trim(searchQuery)))
    /\ ~startsWith(toLowerCase(c.name), toLowerCase(trim(searchQuery)))

\* C1: for every list and query the ranked output is a permutation of the
\* input: same length, and every input object occurs exactly once in it.
C1_RankIsPermutation ==
    Ranked =>
        /\ Len(filteredComponents) = Len(components)
        /\ \A i \in 1..Len(components) :
             Cardinality({p \in 1..Len(filteredComponents) :
                             filteredComponents[p] = components[i]}) = 1

\* C1 witness: three items ranked and reordered under a non-blank query, one
\* of them not containing the query at all.
C1_Witness ==
    /\ Ranked /\ NonBlankQuery
    /\ Len(components) = 3
    /\ Len(filteredComponents) = 3
    /\ filteredComponents # components
    /\ \E i \in 1..3 :
         ~includes(toLowerCase(components[i].name), toLowerCase(trim(searchQuery)))

\* C2: at most one exact match per source is placed in the exact tier: of two
\* exact matches with the same source only the first is in tier 1 and the
\* second comes after every tier-1 item of the output.
C2_OneExactPerSource ==
    (Ranked /\ NonBlankQuery) =>
        \A i, j \in 1..Len(components) :
            ( /\ i < j
              /\ NameIsQuery(components[i])
              /\ NameIsQuery(components[j])
              /\ components[i].source = components[j].source )
            => /\ ~Has(groups.exactMatches, components[j])
               /\ \A t \in 1..Len(groups.exactMatches) :
                    PosIn(filteredComponents, groups.exactMatches[t])
                      < PosIn(filteredComponents, components[j])

\* C3: for an empty or whitespace-only query the output is the input, in
\* input order.
C3_BlankQueryIdentity ==
    (Ranked /\ ~NonBlankQuery) => filteredComponents = components

\* C3 witness: a whitespace-only query and a list that the ranking pass would
\* reorder (the empty name is the exact match of the normalized query "").
C3_Witness ==
    /\ Ranked
    /\ searchQuery = <<" ">>
    /\ Len(components) >= 2
    /\ components[1].name # <<>>
    /\ components[2].name = <<>>
    /\ filteredComponents = components

\* C4: for a non-blank query the output is tier 1 ++ tier 2 ++ tier 3 ++
\* tier 4, every tier keeps the relative input order of its members, and every
\* exact match precedes every item that matches only as a substring.
C4_TierConcatenation ==
    (Ranked /\ NonBlankQuery) =>
        /\ filteredComponents =
             groups.exactMatches \o groups.startsWithMatches
               \o groups.containsMatches \o groups.otherMatches
        /\ InInputOrder(groups.exactMatches)
        /\ InInputOrder(groups.startsWithMatches)
        /\ InInputOrder(groups.containsMatches)
        /\ InInputOrder(groups.otherMatches)
        /\ \A p, q \in 1..Len(filteredComponents) :
             ( NameIsQuery(filteredComponents[p])
               /\ NameContainsOnly(filteredComponents[q]) ) => p < q

\* C4 witness: a substring-only match that came first in the input is moved
\* behind an exact match, and a tier holds two items.
C4_Witness ==
    /\ Ranked /\ NonBlankQuery
    /\ Len(components) = 3
    /\ NameContainsOnly(components[1])
    /\ NameContainsOnly(components[2])
    /\ NameIsQuery(components[3])
    /\ filteredComponents = <<components[3], components[1], components[2]>>

\* C5: every item is in exactly one tier, the first matching one: a name that
\* starts with the query is in neither the contains nor the other tier, a name
\* that contains the query is not in the other tier, and the other tier holds
\* only names that do not contain the query.
C5_FirstMatchingTierWins ==
    (Ranked /\ NonBlankQuery) =>
        \A i \in 1..Len(components) :
            LET c  == components[i]
                nn == toLowerCase(c.name)
                nq == toLowerCase(trim(searchQuery))
                tiers == <<groups.exactMatches, groups.startsWithMatches,
                           groups.containsMatches, groups.otherMatches>>
            IN  /\ Cardinality({t \in 1..4 : Has(tiers[t], c)}) = 1
                /\ \A t \in 1..4 :
                     Cardinality({p \in 1..Len(tiers[t]) : tiers[t][p] = c}) <= 1
                /\ startsWith(nn, nq) =>
                     /\ ~Has(groups.containsMatches, c)
                     /\ ~Has(groups.otherMatches, c)
                /\ includes(nn, nq) => ~Has(groups.otherMatches, c)
                /\ Has(groups.otherMatches, c) => ~includes(nn, nq)

\* C5 witness: the starts-with, contains and other tiers each received an item.
C5_Witness ==
    /\ Ranked /\ NonBlankQuery
    /\ Len(groups.startsWithMatches) = 1
    /\ Len(groups.containsMatches) = 1
    /\ Len(groups.otherMatches) = 1
    /\ includes(toLowerCase(groups.startsWithMatches[1].name),
                toLowerCase(trim(searchQuery)))

\* C6 (as stated): item names are trimmed as well as lower-cased, so a name
\* that differs from the query only by case and by leading or trailing
\* whitespace is in the exact tier.
C6_NameTrimmed ==
    (Ranked /\ NonBlankQuery) =>
        \A i \in 1..Len(components) :
            trim(toLowerCase(components[i].name)) = toLowerCase(trim(searchQuery))
            => Has(groups.exactMatches, components[i])

\* C6 (amended): item names are lower-cased but not trimmed: an item is in the
\* exact tier exactly when its lower-cased name, whitespace included, equals
\* the trimmed, lower-cased query.
C6_NameLowerCasedOnly ==
    (Ranked /\ NonBlankQuery) =>
        \A i \in 1..Len(components) :
            Has(groups.exactMatches, components[i])
            <=> toLowerCase(components[i].name) = toLowerCase(trim(searchQuery))

\* C6 witness: a name differing from the query by case only is in the exact
\* tier, next to a name with surrounding whitespace that is not.
C6_Witness ==
    /\ Ranked /\ NonBlankQuery
    /\ \E i, j \in 1..Len(components) :
         /\ components[i].name # searchQuery
         /\ Has(groups.exactMatches, components[i])
         /\ trim(components[j].name) # components[j].name
         /\ trim(toLowerCase(components[j].name)) = toLowerCase(trim(searchQuery))
         /\ ~Has(groups.exactMatches, components[j])

\* C7: the query is compared trimmed and case-insensitively: every item whose
\* name equals the trimmed query up to case is in the exact tier.
C7_QueryCaseAndTrimInsensitive ==
    (Ranked /\ NonBlankQuery) =>
        \A i \in 1..Len(components) :
            NameIsQuery(components[i]) => Has(groups.exactMatches, components[i])

\* C7 witness: a query with a leading space and an upper-case letter, and a
\* lower-case name placed in the exact tier.
C7_Witness ==
    /\ Ranked
    /\ searchQuery = <<" ", "A">>
    /\ \E i \in 1..Len(components) :
         /\ components[i].name = <<"a">>
         /\ Has(groups.exactMatches, components[i])

\* The grouped sections are on screen (non-empty list, non-empty query).
Grouped == pc = "rendered" /\ view.kind = "grouped"

\* C8: the Exact Matches section uses the normalization of rank: for a query
\* that is not blank it holds exactly the items whose trimmed, lower-cased name
\* equals the trimmed, lower-cased query, so every item of rank's exact tier
\* is in it.
C8_SameNormalization ==
    (Grouped /\ NonBlankQuery) =>
        /\ view.sections.exact =
             SelectSeq(filteredComponents,
                       LAMBDA c : trim(toLowerCase(c.name))
                                    = trim(toLowerCase(searchQuery)))
        /\ \A t \in 1..Len(groups.exactMatches) :
             Has(view.sections.exact, groups.exactMatches[t])

\* C9: the Exact Matches section is not deduplicated per source: every item
\* whose name equals the query ignoring case is in it.
C9_ExactSectionUnrestricted ==
    Grouped =>
        \A p \in 1..Len(filteredComponents) :
            toLowerCase(filteredComponents[p].name) = toLowerCase(searchQuery)
            => Has(view.sections.exact, filteredComponents[p])

\* C9 witness: two exact matches of the same source are both in the section.
C9_Witness ==
    /\ Grouped
    /\ \E p, q \in 1..Len(view.sections.exact) :
         /\ p # q
         /\ view.sections.exact[p].source = view.sections.exact[q].source

\* C10: the three sections partition the list: every item is in exactly one;
\* similar holds the names that start with the query and are not exact, other
\* holds all remaining items, among them the names that contain the query
\* only as a non-prefix substring.
C10_SectionsPartition ==
    Grouped =>
        /\ Len(view.sections.exact) + Len(view.sections.similar)
             + Len(view.sections.other) = Len(filteredComponents)
        /\ \A p \in 1..Len(filteredComponents) :
             LET c  == filteredComponents[p]
                 nn == toLowerCase(c.name)
                 q  == toLowerCase(searchQuery)
                 secs == <<view.sections.exact, view.sections.similar,
                           view.sections.other>>
             IN  /\ Cardinality({k \in 1..3 : Has(secs[k], c)}) = 1
                 /\ Has(view.sections.similar, c) <=> (startsWith(nn, q) /\ nn # q)
                 /\ Has(view.sections.other, c)
                      <=> (~Has(view.sections.exact, c) /\ ~Has(view.sections.similar, c))
                 /\ (includes(nn, q) /\ ~startsWith(nn, q)) =>
                      (Has(view.sections.other, c) /\ ~Has(view.sections.similar, c))

\* C10 witness: one item in each section, the one in other containing the
\* query as a non-prefix substring.
C10_Witness ==
    /\ Grouped
    /\ Len(view.sections.exact) = 1
    /\ Len(view.sections.similar) = 1
    /\ Len(view.sections.other) = 1
    /\ includes(toLowerCase(view.sections.other[1].name), toLowerCase(searchQuery))

\* C11: rank and categorize never raise an error: an empty list gives empty
\* results for any query, and a missing name or source is compared as the
\* empty string.
C11_NeverRaises ==
    /\ thrown = "none"
    /\ (pc \in {"filtered", "rendered"} /\ components = <<>>)
         => filteredComponents = <<>>
    /\ (pc = "rendered" /\ components = <<>>) => view.sections = NoSections

\* C12: the compare list never holds two entries of equal name and source,
\* and addToCompare of a product whose name and source are already in the
\* list leaves the list unchanged.
C12_CompareListIsSet ==
    /\ [](NoDuplicateKeys(compareList))
    /\ [][ ( /\ lastEvent'.kind = "add"
             /\ lastEvent'.n # lastEvent.n
             /\ inCompareList(compareList, lastEvent'.arg) )
           => compareList' = compareList ]_vars

\* C12 witness: a product was added whose name and source were in the list
\* under another price; the list of two entries was left as it was.
C12_Witness ==
    /\ lastEvent.kind = "add"
    /\ Len(compareList) = 2
    /\ inCompareList(compareList, lastEvent.arg)
    /\ ~Has(compareList, lastEvent.arg)

\* C15: every failed search ends with a non-empty error message, loading
\* false and the products state still a list.
C15_FailedSearchKeepsList ==
    (lastEvent.kind = "response" /\ lastEvent.arg \in FailedOutcomes) =>
        /\ homeError # ""
        /\ homeLoading = FALSE
        /\ products.isArray

\* C13: handleSelectComponent on the page of category t stores the selected
\* item under key t of pcBuild, replacing the previous selection for t, and
\* leaves the entry of every other key as it was.
C13_SelectStoresUnderType ==
    (pc = "left" /\ lastSelect # NoSelect) =>
        LET old == parseBuild(lastSelect.currentBuildStr)
        IN  /\ pcBuild.present
            /\ DOMAIN pcBuild.build = (DOMAIN old) \cup {type}
            /\ pcBuild.build[type] = lastSelect.component
            /\ \A k \in (DOMAIN old) \ {type} : pcBuild.build[k] = old[k]

\* C13 witness: a selection on a page whose category already had another item
\* selected, the build also holding the selection of another category.
C13_Witness ==
    /\ pc = "left"
    /\ lastSelect # NoSelect
    /\ lastSelect.currentBuildStr.present
    /\ type \in DOMAIN lastSelect.currentBuildStr.build
    /\ lastSelect.currentBuildStr.build[type] # lastSelect.component
    /\ pcBuild.build[type] = lastSelect.component
    /\ (DOMAIN pcBuild.build) \ {type} # {}

\* C14: every key of the stored pcBuild is one of the ten category keys,
\* whatever the type segment of the route.
C14_KeysAreCategories ==
    pcBuild.present => (DOMAIN pcBuild.build) \subseteq (DOMAIN componentTypeNames)

\* C16: on the component page every failed fetch ends with a non-empty error
\* message, loading and searching false and filteredComponents empty, the
\* components and the ranker's groups untouched; the error is cleared when
\* the next fetch starts.
C16_FailedFetchShowsError ==
    /\ [][ (lastFetch'.outcome = "failed" /\ Len(fetches') < Len(fetches)) =>
             /\ error' # ""
             /\ ~loading'
             /\ ~searching'
             /\ filteredComponents' = <<>>
             /\ components' = components
             /\ groups' = groups ]_vars
    /\ [][ (Len(fetches') > Len(fetches)) => error' = "" ]_vars

\* C16 witness: a search for a non-blank query has just failed on a page
\* that displayed components before; the list is emptied, components kept.
C16_Witness ==
    /\ lastFetch.outcome = "failed"
    /\ pc = "filtered"
    /\ fetches = <<>>
    /\ error # ""
    /\ ~loading /\ ~searching
    /\ components # <<>>
    /\ trim(searchQuery) # <<>>
    /\ filteredComponents = <<>>

\* C20: whenever no fetch is in flight, the last fetch succeeded and the
\* effects have run, filteredComponents is the current components filtered by
\* the selected source and availability and ranked by the current searchQuery.
C20_FilteredIsCurrent ==
    (pc = "rendered" /\ fetches = <<>> /\ lastFetch.outcome = "ok") =>
        filteredComponents =
            applyFilters(components, selectedSource, selectedAvailability, searchQuery)

\* C20 witness: the last fetch was started by Clear Filters with a source
\* filter still in its closure; applied to the response, that filter gives
\* another list than the one displayed once the effects have run.
C20_Witness ==
    /\ pc = "rendered"
    /\ fetches = <<>>
    /\ lastFetch.outcome = "ok"
    /\ lastFetch.call.selectedSource # NoFilter
    /\ selectedSource = NoFilter
    /\ filteredComponents # <<>>
    /\ filteredComponents #
         applyFilters(components, lastFetch.call.selectedSource,
                      lastFetch.call.selectedAvailability, lastFetch.call.searchQuery)

\* Segments of a price string, found by the positions of the marker.
MarkerPositions(price) == {i \in 1..Len(price) : price[i] = Marker}

MarkerCount(price) == Cardinality(MarkerPositions(price))

\* Position of the k-th marker; 0 and Len + 1 stand for the two ends.
SegmentBound(price, k) ==
    IF k = 0 THEN 0
    ELSE IF k > MarkerCount(price) THEN Len(price) + 1
    ELSE CHOOSE i \in MarkerPositions(price) :
           Cardinality({j \in MarkerPositions(price) : j <= i}) = k

\* The k-th segment between markers, k in 1..MarkerCount + 1.
Segment(price, k) ==
    SubSeq(price, SegmentBound(price, k - 1) + 1, SegmentBound(price, k) - 1)

\* Indices of the segments that are not the empty string.
NonEmptySegments(price) ==
    {k \in 1..(MarkerCount(price) + 1) : Segment(price, k) # <<>>}

\* Indices of the segments that hold something else than spaces.
AmountSegments(price) ==
    {k \in 1..(MarkerCount(price) + 1) :
        \E j \in 1..Len(Segment(price, k)) : Segment(price, k)[j] # " "}

\* The n-th segment among those of the index set K.
NthOf(price, K, n) ==
    Segment(price, CHOOSE k \in K : Cardinality({j \in K : j <= k}) = n)

\* A segment as a displayed amount: the marker, then the segment trimmed.
Shown(seg) == <<Marker>> \o trim(seg)

\* C17 (as stated): whenever the marker occurs more than twice, the first
\* non-empty segment is displayed as the current price and the second
\* non-empty segment as the struck-through original price.
C17_AboveTwoMarkersTwoAmounts ==
    (cardPhase = "rendered" /\ MarkerCount(cardPrice) > 2) =>
        /\ cardView.price.kind = "two"
        /\ Cardinality(NonEmptySegments(cardPrice)) >= 2
        /\ cardView.price.current =
             Shown(NthOf(cardPrice, NonEmptySegments(cardPrice), 1))
        /\ cardView.price.original =
             Shown(NthOf(cardPrice, NonEmptySegments(cardPrice), 2))

\* C17 (amended): whenever the marker occurs at least twice and at least two
\* segments hold more than spaces, the first such segment, trimmed, is
\* displayed as the current price and the second as the struck-through
\* original price.
C17_TwoAmountSegmentsShown ==
    ( /\ cardPhase = "rendered"
      /\ MarkerCount(cardPrice) >= 2
      /\ Cardinality(AmountSegments(cardPrice)) >= 2 ) =>
        /\ cardView.price.kind = "two"
        /\ cardView.price.current =
             Shown(NthOf(cardPrice, AmountSegments(cardPrice), 1))
        /\ cardView.price.original =
             Shown(NthOf(cardPrice, AmountSegments(cardPrice), 2))

\* C17 witness: a price with three markers, an empty first segment and two
\* different amounts, displayed as two amounts.
C17_Witness ==
    /\ cardPhase = "rendered"
    /\ MarkerCount(cardPrice) > 2
    /\ Segment(cardPrice, 1) = <<>>
    /\ cardView.price.kind = "two"
    /\ cardView.price.current # cardView.price.original

\* C18 (as stated): the two-amount rendering is used only when the marker
\* occurs more than twice; every other price string is displayed verbatim.
C18_TwoAmountsOnlyAboveTwoMarkers ==
    cardPhase = "rendered" =>
        /\ cardView.price.kind = "two" => MarkerCount(cardPrice) > 2
        /\ MarkerCount(cardPrice) <= 2 => cardView.price = RawPrice(cardPrice)

\* C18 (amended): the two-amount rendering is used only when the marker
\* occurs at least twice; every other price string, in particular every
\* string with one marker or none, is displayed verbatim.
C18_TwoAmountsOnlyFromTwoMarkers ==
    cardPhase = "rendered" =>
        /\ cardView.price.kind = "two" => MarkerCount(cardPrice) >= 2
        /\ cardView.price.kind # "two" => cardView.price = RawPrice(cardPrice)
        /\ MarkerCount(cardPrice) <= 1 => cardView.price = RawPrice(cardPrice)

\* C18 witness: a price with one marker between two amounts, displayed as
\* the raw string.
C18_Witness ==
    /\ cardPhase = "rendered"
    /\ MarkerCount(cardPrice) = 1
    /\ Cardinality(AmountSegments(cardPrice)) = 2
    /\ cardView.price = RawPrice(cardPrice)

\* C19: two different retailers never get the same short-code, neither in
\* the source badge of the component card nor in the section headers of the
\* search page.
C19_ShortCodesOneToOne ==
    (cardPhase = "rendered" /\ cardSources[1] # cardSources[2]) =>
        /\ cardView.badges[1] # cardView.badges[2]
        /\ cardView.headers[1] # cardView.headers[2]

\* C21: on the search page, once every search request has completed and none
\* has failed, the products state holds the response of the request issued
\* last, in whatever order the responses arrived.
C21_LastRequestShown ==
    ( /\ homePhase = "ready"
      /\ issued > 0
      /\ inflight = {}
      /\ homeError = "" ) => shownRequest = issued

\* C22: on the search page, loading is true in every state in which a search
\* request is in flight.
C22_LoadingWhileInFlight ==
    (homePhase = "ready" /\ inflight # {}) => homeLoading

\* C23: a click on "Search for Ryzen CPUs" sets the query to "ryzen" and
\* issues, in the same click, a search request for "ryzen", whatever the
\* query was before.
C23_RyzenSearchesRyzen ==
    lastEvent.kind = "ryzen" =>
        /\ homeQuery = RyzenQuery
        /\ [id |-> issued, q |-> RyzenQuery] \in inflight

\* C26: mounting the search page never loses a stored compare list: at every
\* step the stored blob holds every item stored before the mount, and once
\* the effects have run the compare list in memory equals the stored one.
C26_MountKeepsStoredList ==
    /\ (storedAtMount.present /\ homePhase # "unmounted") =>
          /\ storedCompareList.present
          /\ \A i \in 1..Len(storedAtMount.list) :
               Has(parse(storedCompareList), storedAtMount.list[i])
    /\ HomeReady =>
          /\ storedCompareList.present
          /\ parse(storedCompareList) = compareList

\* C24: on the component page, in every settled state where error is
\* non-empty and loading is false, filteredComponents is empty, also after
\* typing or a change of filter that follows a failed fetch.
C24_ErrorKeepsListEmpty ==
    (pc = "rendered" /\ error # "" /\ ~loading) => filteredComponents = <<>>

\* C25: on the component page at most one fetch is in flight at any time,
\* and after the fetch of the mount effect a fetch only starts in a state
\* where loading and searching are both false.
C25_OneFetchInFlight ==
    /\ [](Len(fetches) <= 1)
    /\ [][ (Len(fetches') > Len(fetches)) =>
             (pc = "mounted" \/ (~loading /\ ~searching)) ]_vars

\* C25 witness: a search for a non-blank query is in flight on a page that
\* shows the list of an earlier fetch; loading and searching are true and
\* the skeleton is displayed.
C25_Witness ==
    /\ pc = "rendered"
    /\ Len(fetches) = 1
    /\ fetches[1].search # Undefined
    /\ loading /\ searching
    /\ components # <<>>
    /\ view.kind = "skeleton"

====
